---- MODULE Spec2Model ----
(***************************************************************************)
(* Change-stream replication engine of documentdb-playground/sync_service: *)
(* the state store (state.py), the event applier, the stream multiplexer   *)
(* and the supervisor with its retry loop (sync.py).                       *)
(*                                                                         *)
(* Encoding.  Python values that may be None are strings, None being the   *)
(* string "<None>"; the empty string is the falsy, non-null identity.      *)
(* A dict is a sequence of <<key, value>> pairs in iteration order.  The   *)
(* resume token of the i-th event of a collection's feed is the number i;  *)
(* Null (0) is the null token.                                             *)
(***************************************************************************)
EXTENDS Integers, Sequences, FiniteSets, TLC

(* ------------------------------ bounds -------------------------------- *)
\* events the source emits in one behaviour, all collections together
MaxFeed == 3
\* state.persist_interval of the configuration (10 by default)
PersistInterval == 2
\* applications of one event in the applier's own specification
MaxApply == 3
\* kinds of fault (see Faults) one behaviour may meet, each any number of times
MaxFaultKinds == 1
\* calls on the target that raise something other than OperationFailure,
\* counted by sync_stats.errors
MaxErrors == 1
\* cursors of the multiplexer in its own specification
MaxCursors == 3
\* calls of try_next in one behaviour of the multiplexer's specification
MaxCalls == 5
\* length of watch.collections in open_change_stream's own specification
MaxSpecs == 3

(* --------------------------- program constants ------------------------ *)
max_retries == 5
InitialRetryDelay == 5
MaxRetryDelay == 60
Null == 0

\* watch.collections of the configuration
Collections == <<"a.x", "b.y">>
CollSet == {Collections[k] : k \in 1..Len(Collections)}

None == "<None>"

\* coll_spec.split(".", 1)
SplitSpec(c) ==
    CASE c = "a.x" -> [db |-> "a", coll |-> "x"]
      [] c = "b.y" -> [db |-> "b", coll |-> "y"]
      [] OTHER     -> [db |-> None, coll |-> None]

(* ------------------------- python value helpers ----------------------- *)
\* bool(v) is False for None and for the empty string
Falsy(v) == v \in {None, ""}
Truthy(v) == ~Falsy(v)

\* a or b
PyOr(a, b) == IF Truthy(a) THEN a ELSE b

\* d.get(k)
DictGet(d, k) ==
    IF \E i \in 1..Len(d) : d[i][1] = k
    THEN d[CHOOSE i \in 1..Len(d) : d[i][1] = k][2]
    ELSE None

\* {k: v for k, v in full_document.items() if k != "_id"}
StripId(d) == SelectSeq(d, LAMBDA p : p[1] # "_id")

(* ------------------------------ applier ------------------------------- *)
\* extract_document_id(document_key, full_document); a missing or empty
\* full_document is <<>> (both are falsy, the only test the code makes)
extract_document_id(document_key, full_document) ==
    LET d1 == PyOr(DictGet(document_key, "_id"), DictGet(document_key, ""))
        d2 == IF Falsy(d1) /\ full_document # <<>>
              THEN DictGet(full_document, "_id") ELSE d1
        d3 == IF Falsy(d2) /\ document_key # <<>>
              THEN document_key[1][2] ELSE d2
    IN d3

\* the target database: a set of documents [db, coll, id, body]
InColl(t, db, coll) == {d \in t : d.db = db /\ d.coll = coll}

\* identities the target generates for documents written without one
GenIds == {"g1", "g2", "g3"}

\* variant: insert_one(doc_to_write), the body written without its _id
ReplaceOneAsInsert(t, db, coll, doc_id, body) ==
    LET free == {g \in GenIds : \A d \in InColl(t, db, coll) : d.id # g}
    IN IF free = {} THEN t
       ELSE t \cup {[db |-> db, coll |-> coll,
                      id |-> CHOOSE g \in free : TRUE, body |-> body]}

\* target_collection.replace_one({"_id": doc_id}, doc_to_write, upsert=True)
ReplaceOne(t, db, coll, doc_id, body) ==
    {d \in t : ~(d.db = db /\ d.coll = coll /\ d.id = doc_id)}
        \cup {[db |-> db, coll |-> coll, id |-> doc_id, body |-> body]}

\* target_collection.delete_one({"_id": doc_id})
DeleteOne(t, db, coll, doc_id) ==
    {d \in t : ~(d.db = db /\ d.coll = coll /\ d.id = doc_id)}

\* target_client[db_name].drop_collection(coll_name)
DropCollection(t, db, coll) == {d \in t : ~(d.db = db /\ d.coll = coll)}

\* target_client.drop_database(db_name)
DropDatabase(t, db) == {d \in t : d.db # db}

\* variant: the writes do not test fullDocument
CallsTargetWithoutFullDocument(change) ==
    /\ Truthy(change.ns.db) /\ Truthy(change.ns.coll)
    /\ \/ change.op \in {"insert", "update", "replace"}
       \/ /\ change.op = "delete"
          /\ change.dk # <<>>
          /\ Truthy(extract_document_id(change.dk, <<>>))
       \/ change.op \in {"drop", "dropDatabase"}

\* whether sync_change reaches a call on the target for this event
CallsTarget(change) ==
    /\ Truthy(change.ns.db) /\ Truthy(change.ns.coll)
    /\ \/ change.op \in {"insert", "update", "replace"} /\ change.full # <<>>
       \/ /\ change.op = "delete"
          /\ change.dk # <<>>
          /\ Truthy(extract_document_id(change.dk, <<>>))
       \/ change.op \in {"drop", "dropDatabase"}

\* sync_change(change, target_client, state, config) with the target call
\* ending as fault says: "none" (it succeeds), "opfail" (OperationFailure)
\* or "exc" (any other exception).  Yields the target afterwards, the kind
\* passed to state.record_operation ("" when it is not called) and the
\* value returned.
sync_change(change, t, fault) ==
    LET db   == change.ns.db
        coll == change.ns.coll
        Res(t2, rec, ret) == [target |-> t2, rec |-> rec, ret |-> ret]
    IN
    IF Falsy(db) \/ Falsy(coll) THEN Res(t, "", TRUE)
    ELSE IF ~CallsTarget(change)
    THEN IF change.op = "invalidate" THEN Res(t, "", FALSE) ELSE Res(t, "", TRUE)
    ELSE IF fault = "exc" THEN Res(t, "error", FALSE)
    ELSE IF fault = "opfail"
    THEN IF change.op \in {"drop", "dropDatabase"}
         THEN Res(t, "", TRUE) ELSE Res(t, "error", TRUE)
    ELSE CASE change.op = "insert" ->
                Res(ReplaceOne(t, db, coll,
                               extract_document_id(change.dk, change.full),
                               StripId(change.full)), "insert", TRUE)
           [] change.op \in {"update", "replace"} ->
                Res(ReplaceOne(t, db, coll,
                               extract_document_id(change.dk, change.full),
                               StripId(change.full)), "update", TRUE)
           [] change.op = "delete" ->
                Res(DeleteOne(t, db, coll, extract_document_id(change.dk, <<>>)),
                    "delete", TRUE)
           [] change.op = "drop" -> Res(DropCollection(t, db, coll), "", TRUE)
           [] change.op = "dropDatabase" -> Res(DropDatabase(t, db), "", TRUE)

(* ------------------------------ events -------------------------------- *)
NoNs == [db |-> None, coll |-> None]

Ins(c, d, v) == [op |-> "insert", ns |-> SplitSpec(c),
                 dk |-> << <<"_id", d>> >>,
                 full |-> << <<"_id", d>>, <<"v", v>> >>]
Del(c, d) == [op |-> "delete", ns |-> SplitSpec(c),
              dk |-> << <<"_id", d>> >>, full |-> <<>>]
\* an invalidate event carrying its namespace, and one carrying only
\* operationType and _id
Inv(c) == [op |-> "invalidate", ns |-> SplitSpec(c), dk |-> <<>>, full |-> <<>>]
InvBare == [op |-> "invalidate", ns |-> NoNs, dk |-> <<>>, full |-> <<>>]

\* an update whose fullDocument lookup found nothing
UpdNoDoc(c, d) == [op |-> "update", ns |-> SplitSpec(c),
                   dk |-> << <<"_id", d>> >>, full |-> <<>>]

\* the source's feeds: each collection's feed is a prefix of its script,
\* repeated; between them the scripts hold every kind of event the
\* supervisor treats differently
Script(c) ==
    IF c = "a.x" THEN <<Ins(c, "A", "1"), Del(c, "A"), Inv(c)>>
                 ELSE <<InvBare, UpdNoDoc(c, "A"), Inv(c), Ins(c, "A", "1"), Del(c, "A")>>
NextChange(c, n) == Script(c)[(n % Len(Script(c))) + 1]

\* what a run may meet: the process is killed (and started again), it is
\* started again after it exited, connecting fails, a cursor fails to open,
\* a write of the state file fails, a call on the target raises
Faults == {"crash", "restart", "connfail", "openfail", "savefail", "targetfault"}

(* ------------------------------- state -------------------------------- *)
VARIABLES
    pc,                 \* the supervisor's position in main / run_sync / _save
    ret,                \* which call of persist() is in progress
    exc,                \* the exception leaving run_sync: none, conn, fatal
    brk,                \* the main loop was left because sync_change returned False
    attempt,            \* main: the for loop's attempt
    retry_delay,        \* main: retry_delay
    slept,              \* the delay of the last time.sleep, 0 before any
    shutdown_requested, \* the global flag
    exit_code,          \* the process's exit code once pc = "exited"
    tokens,             \* SyncState._state["resume_tokens"]
    stats,              \* SyncState._state["sync_stats"]
    csp,                \* SyncState._changes_since_persist
    disk,               \* the state file: [st, tokens]
    tmp,                \* the temp file of the _save in progress
    feed,               \* per collection, the events the source emitted
    streams,            \* stream_names of the open stream object
    pos,                \* per collection, the last event its cursor delivered
    current_index,      \* MultiCollectionChangeStream.current_index
    clients,            \* run_sync: the client handles it holds open
    cur,                \* (coll_name, change) of the iteration in progress
    target,             \* the target database
    handed,             \* history: per collection, -1 before its first open, else the event up to
                        \*   which every event emitted since that open was passed to sync_change
    applied,            \* history: per collection, events sync_change returned True for
    napplied,           \* history: update_resume_token calls since process start, mod PersistInterval
    rec,                \* history: what the last sync_change passed to record_operation,
                        \*   "" once its iteration is over
    raised,             \* history: how the target call of that sync_change ended:
                        \*   "none", "opfail" (OperationFailure) or "exc" (another exception)
    env,                \* the kinds of event of Faults this behaviour may meet
    ap_change, ap_first, ap_n,  \* the applier's own specification
    mx,                 \* the multiplexer's own specification
    oc                  \* open_change_stream's own specification

vars == <<pc, ret, exc, brk, attempt, retry_delay, slept, shutdown_requested,
          exit_code, tokens, stats, csp, disk, tmp, feed, streams, pos,
          current_index, clients, cur, target, handed, applied, napplied, rec, raised, env,
          ap_change, ap_first, ap_n, mx, oc>>

mainVars == <<attempt, retry_delay, slept, exit_code>>
memVars == <<tokens, stats, csp>>
fileVars == <<disk, tmp>>
streamVars == <<streams, pos, current_index, clients>>
histVars == <<handed, applied, napplied, rec, raised>>
apVars == <<env, ap_change, ap_first, ap_n, mx, oc>>

\* the multiplexer and open_change_stream outside their own specifications
MxIdle == [n |-> 0, index |-> 0, out |-> <<>>, step |-> 0, start |-> 0,
           result |-> "", probed |-> <<>>, w |-> -1, waited |-> 0,
           calls |-> 0, lastWait |-> 0]
OcIdle == [collections |-> <<>>, stored |-> <<>>, fails |-> {}, i |-> 0,
           streams |-> <<>>, result |-> ""]

\* sync_stats of a fresh SyncState
ZeroStats == [total_synced |-> 0, inserts |-> 0, updates |-> 0, deletes |-> 0,
              errors |-> 0]

\* variant of record_operation: an error is not counted in total_synced
record_operation_ErrorApart(st, operation_type) ==
    CASE operation_type = "insert" ->
           [st EXCEPT !.total_synced = @ + 1, !.inserts = @ + 1]
      [] operation_type \in {"update", "replace"} ->
           [st EXCEPT !.total_synced = @ + 1, !.updates = @ + 1]
      [] operation_type = "delete" ->
           [st EXCEPT !.total_synced = @ + 1, !.deletes = @ + 1]
      [] operation_type = "error" -> [st EXCEPT !.errors = @ + 1]
      [] OTHER -> st

\* SyncState.record_operation(operation_type); "" stands for no call
record_operation(st, operation_type) ==
    CASE operation_type = "" -> st
      [] operation_type = "insert" ->
           [st EXCEPT !.total_synced = @ + 1, !.inserts = @ + 1]
      [] operation_type \in {"update", "replace"} ->
           [st EXCEPT !.total_synced = @ + 1, !.updates = @ + 1]
      [] operation_type = "delete" ->
           [st EXCEPT !.total_synced = @ + 1, !.deletes = @ + 1]
      [] operation_type = "error" ->
           [st EXCEPT !.total_synced = @ + 1, !.errors = @ + 1]
      [] OTHER -> [st EXCEPT !.total_synced = @ + 1]

NoFile == [st |-> "absent", tokens |-> <<>>, stats |-> ZeroStats]
\* a state file that does not parse
CorruptFile == [st |-> "corrupt", tokens |-> <<>>, stats |-> ZeroStats]
NoCur == [c |-> None, i |-> 0]
SavePcs == {"save_mkstemp", "save_write", "save_replace"}
Running == pc \notin {"exited"}

\* the token a dict of tokens holds for c: dict.get(c)
TokenOf(d, c) == IF c \in DOMAIN d THEN d[c] ELSE Null
\* the token of c in the state file as a reader finds it
DiskToken(c) == IF disk.st = "full" THEN TokenOf(disk.tokens, c) ELSE Null

Max(a, b) == IF a >= b THEN a ELSE b
Min(a, b) == IF a <= b THEN a ELSE b

\* variant of _load: the counters of the file are not taken over
LoadStatsFresh(file) == ZeroStats

\* SyncState.__init__ and _load: the defaults overlaid with a file that parses
Load(file) == IF file.st = "full" THEN file.tokens ELSE <<>>
LoadStats(file) == IF file.st = "full" THEN file.stats ELSE ZeroStats

Init ==
    /\ pc = "attempt" /\ ret = "" /\ exc = "none" /\ brk = FALSE
    /\ attempt = 0 /\ retry_delay = InitialRetryDelay /\ slept = 0
    /\ shutdown_requested = FALSE /\ exit_code = 0
    /\ disk = NoFile /\ tmp = NoFile
    /\ tokens = Load(NoFile) /\ stats = LoadStats(NoFile) /\ csp = 0
    /\ feed = [c \in CollSet |-> <<>>]
    /\ streams = <<>> /\ pos = [c \in CollSet |-> 0] /\ current_index = 0
    /\ clients = {}
    /\ cur = NoCur /\ target = {}
    /\ handed = [c \in CollSet |-> -1] /\ applied = [c \in CollSet |-> {}]
    /\ napplied = 0 /\ rec = "" /\ raised = "none"
    /\ env \in {S \in SUBSET Faults : Cardinality(S) <= MaxFaultKinds}
    /\ ap_change = InvBare /\ ap_first = {} /\ ap_n = 0
    /\ mx = MxIdle /\ oc = OcIdle

(* ----------------------------- environment ---------------------------- *)
\* the number of events emitted so far
RECURSIVE SumLen(_, _)
SumLen(f, k) == IF k = 0 THEN 0 ELSE Len(f[Collections[k]]) + SumLen(f, k - 1)
Emitted == SumLen(feed, Len(Collections))

\* the source emits one more event on collection c
Emit(c) ==
    /\ Emitted < MaxFeed
    /\ feed' = [feed EXCEPT ![c] = Append(@, NextChange(c, Len(@)))]
    /\ UNCHANGED <<pc, ret, exc, brk, mainVars, shutdown_requested, memVars,
                   fileVars, streamVars, cur, target, histVars, apVars>>

\* signal_handler: SIGINT or SIGTERM
Signal ==
    /\ Running /\ ~shutdown_requested
    /\ shutdown_requested' = TRUE
    /\ UNCHANGED <<pc, ret, exc, brk, mainVars, memVars, fileVars, feed,
                   streamVars, cur, target, histVars, apVars>>

\* a new process: main up to the retry loop (no --reset)
StartProcess ==
    /\ pc' = "attempt" /\ ret' = "" /\ exc' = "none" /\ brk' = FALSE
    /\ attempt' = 0 /\ retry_delay' = InitialRetryDelay /\ slept' = 0
    /\ shutdown_requested' = FALSE /\ exit_code' = 0
    /\ tokens' = Load(disk) /\ stats' = LoadStats(disk) /\ csp' = 0
    /\ streams' = <<>> /\ pos' = [c \in CollSet |-> 0] /\ current_index' = 0
    /\ clients' = {}
    /\ cur' = NoCur /\ napplied' = 0 /\ rec' = "" /\ raised' = "none"
    /\ tmp' = NoFile   \* a temp file left behind is never read again
    /\ UNCHANGED <<disk, feed, target, handed, applied, apVars>>

\* the process is killed at any point and started again
Crash == "crash" \in env /\ Running /\ StartProcess

\* the process is started again after it exited
Restart == "restart" \in env /\ pc = "exited" /\ StartProcess

(* ------------------------------ state store --------------------------- *)
\* persist() is called: _save starts (state.py 195-197, 96)
CallPersist(r) == pc' = "save_mkstemp" /\ ret' = r

\* variant of init_collections: every listed entry is set to None
InitEntriesReset(d) == [c \in CollSet \cup DOMAIN d |-> IF c \in CollSet THEN Null ELSE d[c]]

\* variant of init_collections: no entry is added
InitEntriesKeep(d) == d

\* init_collections, before its persist: a null entry for each collection
\* that has none
InitEntries(d) == [c \in CollSet \cup DOMAIN d |-> TokenOf(d, c)]

\* variant of update_resume_token's threshold test: > for >=
ReachedThresholdStrict(n) == n > PersistInterval

\* variant of update_resume_token: no periodic flush
ReachedThresholdNever(n) == FALSE

\* update_resume_token: self._changes_since_persist >= persist_interval
ReachedThreshold(n) == n >= PersistInterval

\* variant of _save: the document is written straight to the state file
SaveTargetInPlace(t, d, content) == [tmp |-> t, disk |-> content]

\* _save step: what the write of `content` leaves in the temp file t and
\* in the state file d
SaveTarget(t, d, content) == [tmp |-> content, disk |-> d]

\* an exception leaves persist(): where control goes, by the call it was.
\* From init_collections it reaches the finally block's persist at once;
\* otherwise ret = "error" marks the exception until the next persist().
PersistRaises ==
    /\ exc' = "fatal"
    /\ CASE ret = "init" -> CallPersist("finally")
         [] ret \in {"idle", "periodic"} -> pc' = "close_stream" /\ ret' = "error"
         [] ret = "finally" -> pc' = "returned" /\ ret' = "error"
    /\ UNCHANGED streamVars

\* tempfile.mkstemp: the temp file is created, empty
SaveMkstemp ==
    /\ pc = "save_mkstemp"
    /\ \/ /\ tmp' = [st |-> "partial", tokens |-> <<>>, stats |-> ZeroStats]
          /\ pc' = "save_write"
          /\ UNCHANGED <<ret, exc, streamVars>>
       \/ /\ "savefail" \in env
          /\ tmp' = tmp          \* mkstemp raises: no temp file
          /\ PersistRaises
    /\ UNCHANGED <<brk, mainVars, shutdown_requested, memVars, disk, feed, cur,
                   target, histVars, apVars>>

\* json.dump into the temp file
SaveWrite ==
    /\ pc = "save_write"
    /\ \/ /\ LET w == SaveTarget(tmp, disk, [st |-> "full", tokens |-> tokens, stats |-> stats])
             IN tmp' = w.tmp /\ disk' = w.disk
          /\ pc' = "save_replace"
          /\ UNCHANGED <<ret, exc, streamVars>>
       \/ /\ "savefail" \in env
          /\ LET w == SaveTarget(tmp, disk, [st |-> "partial", tokens |-> <<>>, stats |-> ZeroStats])
             IN tmp' = NoFile /\ disk' = w.disk   \* the write fails: os.unlink
          /\ PersistRaises
    /\ UNCHANGED <<brk, mainVars, shutdown_requested, memVars, feed, cur,
                   target, histVars, apVars>>

\* os.replace(temp_path, state_file), then persist()'s counter reset and
\* the return to the caller
SaveReplace ==
    /\ pc = "save_replace"
    /\ \/ /\ disk' = tmp
          /\ tmp' = NoFile
          /\ csp' = 0
          /\ exc' = exc
          /\ ret' = ""
          /\ pc' = CASE ret = "init" -> "open"
                     [] ret \in {"idle", "periodic"} -> "loop"
                     [] ret = "finally" -> "returned"
          /\ cur' = NoCur
          \* the finally block goes on: source_client.close(), target_client.close()
          /\ clients' = IF ret = "finally" THEN {} ELSE clients
          /\ UNCHANGED <<streams, pos, current_index>>
       \/ /\ "savefail" \in env
          /\ disk' = disk /\ tmp' = NoFile   \* os.replace raises: os.unlink
          /\ csp' = csp
          /\ PersistRaises
          /\ UNCHANGED cur
    /\ UNCHANGED <<brk, mainVars, shutdown_requested, tokens, stats, feed,
                   target, histVars, apVars>>

(* ------------------------------ supervisor ---------------------------- *)
\* run_sync: connect_source, connect_target; a connection error goes
\* through the except clause to the finally block
Connect ==
    /\ pc = "attempt"
    /\ brk' = FALSE /\ rec' = "" /\ raised' = "none"
    /\ \/ pc' = "init" /\ exc' = "none" /\ ret' = ret
          /\ clients' = {"source", "target"}
       \/ /\ "connfail" \in env
          /\ exc' \in {"conn", "fatal"}
          \* connect_source raises, or connect_target does
          /\ clients' \in {{}, {"source"}}
          /\ CallPersist("finally")
    /\ UNCHANGED <<mainVars, shutdown_requested, memVars, fileVars, feed,
                   streams, pos, current_index, cur, target, handed, applied,
                   napplied, apVars>>

\* state.init_collections(collections)
InitCollections ==
    /\ pc = "init"
    /\ tokens' = InitEntries(tokens)
    /\ CallPersist("init")
    /\ UNCHANGED <<exc, brk, mainVars, shutdown_requested, stats, csp, fileVars,
                   feed, streamVars, cur, target, histVars, apVars>>

\* variant of open_change_stream: resume_after is never passed
OpenAtCurrentPosition(tok, f) == Len(f)

\* where a cursor opened with the stored token tok starts in feed f
OpenAt(tok, f) == IF tok # Null THEN tok ELSE Len(f)

\* the subsequence of Collections whose cursor opened
Opened(ok) == SelectSeq(Collections, LAMBDA c : c \in ok)

\* open_change_stream: each cursor opens or fails on its own
OpenChangeStream ==
    /\ pc = "open"
    /\ \E ok \in (IF "openfail" \in env THEN SUBSET CollSet ELSE {CollSet}) :
         IF ok = {}
         THEN /\ exc' = "fatal"          \* ValueError
              /\ CallPersist("finally")
              /\ UNCHANGED <<streams, pos, current_index, handed>>
         ELSE /\ streams' = Opened(ok)
              /\ pos' = [c \in CollSet |->
                           IF c \in ok THEN OpenAt(TokenOf(tokens, c), feed[c]) ELSE 0]
              /\ current_index' = 0
              /\ handed' = [c \in CollSet |->
                              IF c \in ok /\ handed[c] = -1
                              THEN OpenAt(TokenOf(tokens, c), feed[c])
                              ELSE handed[c]]
              /\ pc' = "loop"
              /\ UNCHANGED <<ret, exc>>
    /\ UNCHANGED <<brk, mainVars, shutdown_requested, memVars, fileVars, feed,
                   clients, cur, target, applied, napplied, rec, raised, apVars>>

\* the cursors of the open stream that have an event to deliver
Pending == {c \in CollSet : (\E k \in 1..Len(streams) : streams[k] = c)
                            /\ pos[c] < Len(feed[c])}

\* MultiCollectionChangeStream.try_next / SingleCollectionChangeStream.try_next
\* when the cursors in `ready` yield an event and the others yield None or
\* raise: [k, index], k the place in streams of the cursor that yields (0: none)
StreamTryNext(ready) ==
    LET n == Len(streams)
        hits == {j \in 0..(n - 1) : streams[((current_index + j) % n) + 1] \in ready}
    IN IF hits = {} THEN [k |-> 0, index |-> current_index]
       ELSE LET j == CHOOSE h \in hits : \A g \in hits : h <= g
            IN [k |-> ((current_index + j) % n) + 1,
                index |-> IF n = 1 THEN current_index
                          ELSE (current_index + j + 1) % n]

\* the while loop's test finds the flag set
LoopShutdown ==
    /\ pc = "loop" /\ shutdown_requested
    /\ pc' = "close_stream"
    /\ UNCHANGED <<ret, exc, brk, mainVars, shutdown_requested, memVars,
                   fileVars, feed, streamVars, cur, target, histVars, apVars>>

\* one iteration up to the call of sync_change: stream.try_next(), and
\* state.flush_if_pending() when it yields nothing
Poll ==
    /\ pc = "loop" /\ ~shutdown_requested
    /\ \E ready \in SUBSET Pending :
         LET r == StreamTryNext(ready) IN
         /\ current_index' = r.index
         /\ IF r.k = 0
            THEN /\ IF csp > 0 THEN CallPersist("idle")
                               ELSE pc' = pc /\ ret' = ret
                 /\ UNCHANGED <<pos, cur, handed>>
            ELSE LET c == streams[r.k] IN
                 /\ pos' = [pos EXCEPT ![c] = @ + 1]
                 /\ cur' = [c |-> c, i |-> pos[c] + 1]
                 /\ handed' = [handed EXCEPT ![c] =
                                IF pos[c] + 1 = @ + 1 THEN @ + 1 ELSE @]
                 /\ pc' = "event" /\ ret' = ret
    /\ UNCHANGED <<exc, brk, mainVars, shutdown_requested, memVars, fileVars,
                   feed, streams, clients, target, applied, napplied, rec, raised,
                   apVars>>

\* variant of the test of sync_change's result: the token is recorded
\* whatever it returned
AfterApplyIgnoringResult(success) == "update"

\* variant: continue where the code breaks
AfterApplyContinue(success) == IF success THEN "update" ELSE "loop"

\* if not success: break; else state.update_resume_token(...)
AfterApply(success) == IF success THEN "update" ELSE "close_stream"

\* success = sync_change(change, ...); break when it is False
Apply ==
    /\ pc = "event"
    /\ \E fault \in {"none", "opfail", "exc"} :
         /\ fault # "none" => "targetfault" \in env /\ CallsTarget(feed[cur.c][cur.i])
         /\ fault = "exc" => stats.errors < MaxErrors
         /\ LET r == sync_change(feed[cur.c][cur.i], target, fault) IN
            /\ target' = r.target
            /\ stats' = record_operation(stats, r.rec)
            /\ rec' = r.rec /\ raised' = fault
            /\ pc' = AfterApply(r.ret)
            /\ brk' = (brk \/ ~r.ret)
            /\ applied' = IF r.ret THEN [applied EXCEPT ![cur.c] = @ \cup {cur.i}]
                                   ELSE applied
    /\ UNCHANGED <<ret, exc, mainVars, shutdown_requested, tokens, csp,
                   fileVars, feed, streamVars, cur, handed, napplied, apVars>>

\* state.update_resume_token(coll_name, change["_id"], persist_interval)
UpdateResumeToken ==
    /\ pc = "update"
    /\ tokens' = [c \in DOMAIN tokens \cup {cur.c} |->
                    IF c = cur.c THEN cur.i ELSE tokens[c]]
    /\ napplied' = (napplied + 1) % PersistInterval
    /\ rec' = "" /\ raised' = "none"
    /\ csp' = csp + 1
    /\ IF ReachedThreshold(csp + 1)
       THEN CallPersist("periodic") /\ cur' = cur
       ELSE pc' = "loop" /\ ret' = ret /\ cur' = NoCur
    /\ UNCHANGED <<exc, brk, mainVars, shutdown_requested, stats, fileVars,
                   feed, streamVars, target, handed, applied, apVars>>

\* the inner finally (stream.close()), then the outer finally's persist
CloseStream ==
    /\ pc = "close_stream"
    /\ streams' = <<>> /\ pos' = [c \in CollSet |-> 0] /\ current_index' = 0
    /\ cur' = NoCur
    /\ CallPersist("finally")
    /\ UNCHANGED <<exc, brk, mainVars, shutdown_requested, memVars, fileVars,
                   feed, clients, target, histVars, apVars>>

\* variant: the delay doubles without a cap
NextDelayUncapped(d) == d * 2

\* retry_delay = min(retry_delay * 2, 60)
NextDelay(d) == Min(d * 2, MaxRetryDelay)

\* run_sync has returned or raised: the rest of the for loop's body
MainHandle ==
    /\ pc = "returned"
    /\ CASE exc = "none" /\ shutdown_requested ->
              /\ pc' = "exited" /\ exit_code' = 0
              /\ UNCHANGED <<attempt, retry_delay, slept>>
         [] exc = "none" /\ ~shutdown_requested ->
              IF attempt + 1 < max_retries
              THEN /\ pc' = "attempt" /\ attempt' = attempt + 1
                   /\ UNCHANGED <<retry_delay, slept, exit_code>>
              ELSE /\ pc' = "exited" /\ exit_code' = 0
                   /\ UNCHANGED <<attempt, retry_delay, slept>>
         [] exc = "conn" ->
              IF attempt < max_retries - 1
              THEN /\ pc' = "attempt" /\ attempt' = attempt + 1
                   /\ slept' = retry_delay
                   /\ retry_delay' = NextDelay(retry_delay)
                   /\ UNCHANGED exit_code
              ELSE /\ pc' = "exited" /\ exit_code' = 1
                   /\ UNCHANGED <<attempt, retry_delay, slept>>
         [] exc = "fatal" ->
              /\ pc' = "exited" /\ exit_code' = 1
              /\ UNCHANGED <<attempt, retry_delay, slept>>
    /\ UNCHANGED <<ret, exc, brk, shutdown_requested, memVars, fileVars, feed,
                   streamVars, cur, target, histVars, apVars>>

Next ==
    \/ \E c \in CollSet : Emit(c)
    \/ Signal
    \/ Crash
    \/ Restart
    \/ SaveMkstemp
    \/ SaveWrite
    \/ SaveReplace
    \/ Connect
    \/ InitCollections
    \/ OpenChangeStream
    \/ LoopShutdown
    \/ Poll
    \/ Apply
    \/ UpdateResumeToken
    \/ CloseStream
    \/ MainHandle

Spec == Init /\ [][Next]_vars

\* the steps of the process itself: it goes on running its code as long as
\* it is not killed and has not exited
Engine ==
    \/ SaveMkstemp \/ SaveWrite \/ SaveReplace \/ Connect \/ InitCollections
    \/ OpenChangeStream \/ LoopShutdown \/ Poll \/ Apply \/ UpdateResumeToken
    \/ CloseStream \/ MainHandle

FairSpec == Spec /\ WF_vars(Engine)

\* the first start finds a state file that does not parse
InitCorrupt ==
    /\ pc = "attempt" /\ ret = "" /\ exc = "none" /\ brk = FALSE
    /\ attempt = 0 /\ retry_delay = InitialRetryDelay /\ slept = 0
    /\ shutdown_requested = FALSE /\ exit_code = 0
    /\ disk = CorruptFile /\ tmp = NoFile
    /\ tokens = Load(CorruptFile) /\ stats = LoadStats(CorruptFile) /\ csp = 0
    /\ feed = [c \in CollSet |-> <<>>]
    /\ streams = <<>> /\ pos = [c \in CollSet |-> 0] /\ current_index = 0
    /\ clients = {}
    /\ cur = NoCur /\ target = {}
    /\ handed = [c \in CollSet |-> -1] /\ applied = [c \in CollSet |-> {}]
    /\ napplied = 0 /\ rec = "" /\ raised = "none"
    /\ env \in {S \in SUBSET Faults : Cardinality(S) <= MaxFaultKinds}
    /\ ap_change = InvBare /\ ap_first = {} /\ ap_n = 0
    /\ mx = MxIdle /\ oc = OcIdle

SpecCorrupt == InitCorrupt /\ [][Next]_vars

(* ---------------- the applier's own specification --------------------- *)
\* sync_change applied again and again to one event, from any target state
ApNamespaces == {[db |-> "a", coll |-> "x"], [db |-> "a", coll |-> "y"],
                 [db |-> "b", coll |-> "y"]}
ApOps == {"insert", "update", "replace", "delete", "drop", "dropDatabase",
          "invalidate", "rename"}
ApDocKeys == {<<>>, << <<"_id", "A">> >>, << <<"_id", "">> >>, << <<"", "B">> >>,
              << <<"k", "A">> >>, << <<"_id", None>>, <<"k", "B">> >>}
ApFullDocs == {<<>>, << <<"_id", "A">>, <<"v", "1">> >>, << <<"_id", "B">>, <<"v", "2">> >>,
               << <<"v", "1">> >>, << <<"_id", "">> >>}
\* ns with db only is the ns of a dropDatabase event
ApChanges == [op : ApOps,
              ns : ApNamespaces \cup {NoNs, [db |-> "a", coll |-> ""],
                                      [db |-> "a", coll |-> None]},
              dk : ApDocKeys, full : ApFullDocs]
ApDocs == [db : {"a", "b"}, coll : {"x", "y"}, id : {"A", ""}, body : {<< <<"v", "0">> >>}]
ApTargets == SUBSET {d \in ApDocs : [db |-> d.db, coll |-> d.coll] \in ApNamespaces}

ApInit ==
    /\ pc = "applier" /\ ret = "" /\ exc = "none" /\ brk = FALSE
    /\ attempt = 0 /\ retry_delay = InitialRetryDelay /\ slept = 0
    /\ shutdown_requested = FALSE /\ exit_code = 0
    /\ disk = NoFile /\ tmp = NoFile /\ tokens = <<>> /\ csp = 0
    /\ stats = ZeroStats
    /\ feed = [c \in CollSet |-> <<>>]
    /\ streams = <<>> /\ pos = [c \in CollSet |-> 0] /\ current_index = 0
    /\ clients = {}
    /\ cur = NoCur
    /\ handed = [c \in CollSet |-> -1] /\ applied = [c \in CollSet |-> {}]
    /\ napplied = 0 /\ rec = "" /\ raised = "none" /\ env = {}
    /\ target \in ApTargets
    /\ ap_change \in ApChanges
    /\ ap_first = target /\ ap_n = 0
    /\ mx = MxIdle /\ oc = OcIdle

\* one more call of sync_change(ap_change, ...); ap_n counts the calls in
\* which no call on the target raised, ap_first is the target after the first
ApApply ==
    /\ pc = "applier" /\ ap_n < MaxApply
    /\ \E fault \in {"none", "opfail", "exc"} :
         /\ fault # "none" => CallsTarget(ap_change) /\ stats.errors < MaxErrors
         /\ LET r == sync_change(ap_change, target, fault) IN
            /\ target' = r.target
            /\ stats' = record_operation(stats, r.rec)
            /\ rec' = r.rec /\ raised' = fault
            /\ brk' = ~r.ret
         /\ ap_n' = IF fault = "none" THEN ap_n + 1 ELSE ap_n
         /\ ap_first' = IF fault = "none" /\ ap_n = 0 THEN target' ELSE ap_first
    /\ UNCHANGED <<pc, ret, exc, mainVars, shutdown_requested, tokens, csp,
                   fileVars, feed, streamVars, cur, handed, applied, napplied,
                   env, ap_change, mx, oc>>

ApNext == ApApply

SpecApply == ApInit /\ [][ApNext]_vars

(* -------------- the multiplexer's own specification ------------------- *)
\* the engine's variables, which the specifications of single functions
\* leave alone
engineVars == <<pc, ret, exc, brk, mainVars, shutdown_requested, memVars,
                fileVars, feed, streamVars, cur, target, histVars, env,
                ap_change, ap_first, ap_n>>
NoEngine(p) ==
    /\ pc = p /\ ret = "" /\ exc = "none" /\ brk = FALSE
    /\ attempt = 0 /\ retry_delay = InitialRetryDelay /\ slept = 0
    /\ shutdown_requested = FALSE /\ exit_code = 0
    /\ disk = NoFile /\ tmp = NoFile /\ tokens = <<>> /\ csp = 0
    /\ stats = ZeroStats
    /\ feed = [c \in CollSet |-> <<>>]
    /\ streams = <<>> /\ pos = [c \in CollSet |-> 0] /\ current_index = 0
    /\ clients = {}
    /\ cur = NoCur /\ target = {}
    /\ handed = [c \in CollSet |-> -1] /\ applied = [c \in CollSet |-> {}]
    /\ napplied = 0 /\ rec = "" /\ raised = "none" /\ env = {}
    /\ ap_change = InvBare /\ ap_first = {} /\ ap_n = 0

\* what stream.try_next() of one cursor does when probed: it yields an
\* event, yields None, or raises
Outcomes == {"event", "none", "raise"}
\* collection_names[idx]
MxName(idx) == CASE idx = 0 -> "c0" [] idx = 1 -> "c1" [] idx = 2 -> "c2"
                 [] idx = 3 -> "c3" [] OTHER -> "c4"

\* variant: the index is left where it is
NextIndexStay(index, n) == index

\* variant: the index advances by two
NextIndexSkip(index, n) == (index + 2) % n

\* self.current_index = (self.current_index + 1) % len(self.streams)
NextIndex(index, n) == (index + 1) % n

\* the cursors' outcomes in one call of try_next when cursor w (-1: none)
\* has an event pending
MxOutcomes(n, w) == {o \in [1..n -> Outcomes] : w # -1 => o[w + 1] = "event"}

\* MultiCollectionChangeStream(streams, names) of n cursors, or
\* SingleCollectionChangeStream when n = 1 (one cursor, probed once, which
\* is the sweep of one cursor), and its first call of try_next; cursor w has
\* an event pending until it is served
MxInit ==
    /\ NoEngine("mux") /\ oc = OcIdle
    /\ \E n \in 1..MaxCursors : \E w \in -1..(n - 1) : \E o \in MxOutcomes(n, w) :
         mx = [n |-> n, index |-> 0, out |-> o, step |-> 0, start |-> 0,
               result |-> "", probed |-> <<>>, w |-> w,
               waited |-> IF w = -1 THEN 0 ELSE 1, calls |-> 1, lastWait |-> 0]

\* one iteration of try_next's for loop: the cursor at current_index is
\* probed, the index having moved on
MxProbe ==
    /\ pc = "mux" /\ mx.result = "" /\ mx.step < mx.n
    /\ LET idx == mx.index
           hit == mx.out[idx + 1] = "event"
       IN mx' = [mx EXCEPT !.index = NextIndex(idx, mx.n),
                           !.step = @ + 1,
                           !.probed = Append(@, idx),
                           !.result = IF hit THEN MxName(idx) ELSE "",
                           !.w = IF hit /\ idx = mx.w THEN -1 ELSE @,
                           !.lastWait = IF hit /\ idx = mx.w THEN mx.waited ELSE @]
    /\ UNCHANGED <<engineVars, oc>>

\* the loop is over: return None, None
MxReturnNone ==
    /\ pc = "mux" /\ mx.result = "" /\ mx.step = mx.n
    /\ mx' = [mx EXCEPT !.result = "none"]
    /\ UNCHANGED <<engineVars, oc>>

\* the next call of try_next; a cursor with an event pending keeps it, and
\* when none is being watched one may become so
MxCall ==
    /\ pc = "mux" /\ mx.result # "" /\ mx.calls < MaxCalls
    /\ \E w \in (IF mx.w = -1 THEN -1..(mx.n - 1) ELSE {mx.w}) :
       \E o \in MxOutcomes(mx.n, w) :
         mx' = [mx EXCEPT !.out = o, !.step = 0, !.start = mx.index,
                          !.result = "", !.probed = <<>>, !.w = w,
                          !.waited = IF w = -1 THEN 0
                                     ELSE IF mx.w = -1 THEN 1 ELSE @ + 1,
                          !.calls = @ + 1]
    /\ UNCHANGED <<engineVars, oc>>

MxNext == MxProbe \/ MxReturnNone \/ MxCall

SpecMux == MxInit /\ [][MxNext]_vars

(* ----------- open_change_stream's own specification ------------------- *)
\* the specs watch.collections may hold; "ax" has no dot
OcSpecs == {"a.x", "b.y", "ax"}
\* resume_after is not passed
NotPassed == -1

\* variant: the spec's format is not tested
WellFormedAny(coll_spec) == TRUE

\* "." in coll_spec
WellFormed(coll_spec) == SplitSpec(coll_spec).db # None

\* the sequences over S of length at most n
SeqsUpTo(S, n) == UNION {[1..k -> S] : k \in 0..n}

\* open_change_stream(client, collections, ...) is called; stored are the
\* tokens of the state store, fails the collections whose watch() raises
OcInit ==
    /\ NoEngine("open_fn") /\ mx = MxIdle
    /\ \E cs \in SeqsUpTo(OcSpecs, MaxSpecs) :
       \E st \in [CollSet -> {Null, 1}] :
       \E fl \in SUBSET CollSet :
         oc = [collections |-> cs, stored |-> st, fails |-> fl, i |-> 0,
               streams |-> <<>>, result |-> ""]

\* one iteration of the for loop over collections
OcWatch ==
    /\ pc = "open_fn" /\ oc.result = "" /\ oc.i < Len(oc.collections)
    /\ LET coll_spec == oc.collections[oc.i + 1]
           resume_token == TokenOf(oc.stored, coll_spec)
       IN oc' = [oc EXCEPT
                   !.i = @ + 1,
                   !.streams =
                       IF WellFormed(coll_spec) /\ coll_spec \notin oc.fails
                       THEN Append(@, [name |-> coll_spec,
                                       resume_after |-> IF resume_token # Null
                                                        THEN resume_token
                                                        ELSE NotPassed])
                       ELSE @]
    /\ UNCHANGED <<engineVars, mx>>

\* after the loop: ValueError when no cursor opened (or collections is
\* empty), else the stream object
OcReturn ==
    /\ pc = "open_fn" /\ oc.result = "" /\ oc.i = Len(oc.collections)
    /\ oc' = [oc EXCEPT !.result = IF oc.streams = <<>> THEN "ValueError"
                                   ELSE "stream"]
    /\ UNCHANGED <<engineVars, mx>>

OcNext == OcWatch \/ OcReturn

SpecOpen == OcInit /\ [][OcNext]_vars

(* ------------------------------ properties ---------------------------- *)
\* c's cursor is open in the stream object
IsOpen(c) == \E k \in 1..Len(streams) : streams[k] = c
\* the complete state document holding the tokens now in memory
Document == [st |-> "full", tokens |-> tokens, stats |-> stats]
\* the event at index i of c's feed inserts, or deletes, the document d
IsInsertOf(c, i, d) ==
    /\ feed[c][i].op = "insert" /\ feed[c][i].full # <<>>
    /\ extract_document_id(feed[c][i].dk, feed[c][i].full) = d
IsDeleteOf(c, i, d) ==
    feed[c][i].op = "delete" /\ DictGet(feed[c][i].dk, "_id") = d
\* the engine has applied everything the source emitted and idles
CaughtUp ==
    /\ pc = "loop"
    /\ \A c \in CollSet : IsOpen(c) /\ pos[c] = Len(feed[c])

\* C1: every change the source emits on a watched collection after the
\* engine first opened that collection's stream is passed to sync_change:
\* no cursor is ever past an event emitted since the first open that was
\* not handed to the applier, whatever crashes and restarts happen.
C1_NoChangeSkipped ==
    \A c \in CollSet : IsOpen(c) /\ handed[c] >= 0 => pos[c] <= handed[c]

\* C2: the token held for a collection, in memory and in the state file, is
\* null or the token of an event sync_change returned True for; while the
\* loop is being left because sync_change returned False, that event's
\* token is not the one held unless an earlier call returned True for it.
C2_TokenOnlyOfAppliedEvent ==
    \A c \in CollSet :
        /\ TokenOf(tokens, c) \in {Null} \cup applied[c]
        /\ DiskToken(c) \in {Null} \cup applied[c]
        /\ tmp.st = "full" => TokenOf(tmp.tokens, c) \in {Null} \cup applied[c]

\* the loop was left on a False result and run_sync returned with tokens
\* recorded and persisted
C2_Witness ==
    /\ brk /\ pc = "returned"
    /\ \E c \in CollSet : DiskToken(c) # Null /\ TokenOf(tokens, c) = DiskToken(c)

\* update_resume_token returns normally in this step
UpdateReturns ==
    \/ pc = "update" /\ pc' = "loop"
    \/ pc = "save_replace" /\ ret = "periodic" /\ pc' = "loop"
\* ... for an event whose index since the process started is a multiple
\* of persist_interval
UpdateReturnsAtMultiple ==
    \/ pc = "update" /\ pc' = "loop" /\ napplied' = 0
    \/ pc = "save_replace" /\ ret = "periodic" /\ pc' = "loop" /\ napplied = 0
\* ... for an event that brought changes_since_persist to persist_interval
UpdateReturnsAtThreshold ==
    \/ pc = "update" /\ pc' = "loop" /\ csp + 1 >= PersistInterval
    \/ pc = "save_replace" /\ ret = "periodic" /\ pc' = "loop"
\* the state file never goes back to an earlier token
DiskNeverGoesBack == \A c \in CollSet : DiskToken(c)' >= DiskToken(c)

\* C3 as stated: once update_resume_token has returned for an applied event
\* whose index since the process started is a multiple of persist_interval,
\* the state file holds that event's token or a later one, and keeps doing
\* so (a crash at any later point restarts from it).
C3_DurableAtIntervalMultiples ==
    [][/\ UpdateReturnsAtMultiple =>
            \A c \in CollSet : c = cur.c => DiskToken(c)' >= cur.i
       /\ DiskNeverGoesBack]_vars

\* C3 amended: once update_resume_token has returned for an applied event
\* that brought changes_since_persist to persist_interval (the
\* persist_interval-th event since the state file was last written), the
\* state file holds that event's token or a later one, and keeps doing so.
C3_DurableAtThreshold ==
    [][/\ UpdateReturnsAtThreshold =>
            \A c \in CollSet : c = cur.c => DiskToken(c)' >= cur.i
       /\ DiskNeverGoesBack]_vars

\* the periodic persist of update_resume_token is about to rename a temp
\* file holding the token of the event just applied
C3_Witness ==
    /\ pc = "save_replace" /\ ret = "periodic"
    /\ tmp.st = "full" /\ TokenOf(tmp.tokens, cur.c) = cur.i

\* C4: across every flush, retry attempt and restart the token the state
\* file holds for a collection is never replaced by null or by an earlier
\* token: it stays, or becomes the token of a later event that was applied.
C4_DiskTokenMonotonic ==
    [][\A c \in CollSet :
         \/ DiskToken(c)' = DiskToken(c)
         \/ DiskToken(c)' > DiskToken(c) /\ DiskToken(c)' \in applied[c]]_vars

\* after a retry the state file holds the token of a collection's second event
C4_Witness == attempt >= 1 /\ \E c \in CollSet : DiskToken(c) = 2

\* C5: once the state file exists it has an entry (possibly null) for
\* every collection of the watch list.
C5_FileHasEveryCollection ==
    disk.st = "full" => CollSet \subseteq DOMAIN disk.tokens

\* a persist() raised in this step
SaveFails ==
    /\ pc \in SavePcs
    /\ ret' = "error" \/ (ret = "init" /\ ret' = "finally")

\* C6: a reader of the state file finds no file, the complete previous
\* contents or the complete new contents, never a truncated document,
\* also when the process is killed or the write fails during a persist;
\* when the write fails the temp file is removed, the state file is left
\* as it was and the error propagates to the caller.
C6_AtomicSave ==
    /\ [](disk.st \in {"absent", "full"})
    /\ [][/\ disk' \in {disk, Document}
          /\ SaveFails => tmp' = NoFile /\ disk' = disk /\ exc' = "fatal"]_vars

\* a persist() raised while a complete earlier state file exists
C6_Witness == ret = "error" /\ disk.st = "full" /\ disk.tokens # tokens

\* C7: applying one event any number of times leaves the target as
\* applying it once does, for every event and every target state.
C7_IdempotentApply == ap_n >= 1 => target = ap_first

\* an insert was applied twice and changed the target
C7_Witness ==
    /\ ap_n >= 2 /\ ap_change.op = "insert" /\ CallsTarget(ap_change)
    /\ \E d \in target : d.body = StripId(ap_change.full)

\* C8: once the engine has caught up, a document inserted and later deleted
\* on the source (and not inserted again) is not in the target.
C8_InsertThenDeleteLeavesNoDocument ==
    CaughtUp =>
        \A c \in CollSet : \A i, j \in 1..Len(feed[c]) : \A d \in {"A"} :
            (/\ i < j /\ IsInsertOf(c, i, d) /\ IsDeleteOf(c, j, d)
             /\ \A k \in (j + 1)..Len(feed[c]) : ~IsInsertOf(c, k, d))
            => ~\E t \in target : /\ t.db = SplitSpec(c).db
                                  /\ t.coll = SplitSpec(c).coll /\ t.id = d

\* C9: the token of an invalidate event is never recorded: after an
\* invalidate event the loop is left without update_resume_token, and no
\* token held in memory or in the state file is an invalidate event's.
C9_InvalidateNeverRecorded ==
    /\ pc = "update" => feed[cur.c][cur.i].op # "invalidate"
    /\ \A c \in CollSet :
         /\ TokenOf(tokens, c) # Null => feed[c][TokenOf(tokens, c)].op # "invalidate"
         /\ DiskToken(c) # Null => feed[c][DiskToken(c)].op # "invalidate"

\* C10: when the loop is left because sync_change returned False and no
\* shutdown was requested, the supervisor starts a new attempt: the process
\* does not end on such a return.
C10_ApplierStopNeverEndsProcess ==
    ~(pc = "exited" /\ brk /\ exc = "none" /\ ~shutdown_requested)

\* C11: once the flag is set while the main loop runs no further event is
\* pulled (the loop is left at its next test); a normal return of
\* update_resume_token leaves the applied event's token in memory; whenever
\* run_sync's final persist succeeded after a shutdown request the state
\* file holds exactly the tokens in memory; a process start loads the
\* tokens of the state file and a cursor opened with a stored token starts
\* right after it; and the process eventually stops.
C11_GracefulShutdown ==
    /\ [][shutdown_requested /\ pc = "loop"
            => \/ pc' \in {"loop", "close_stream"} /\ pos' = pos /\ target' = target
               \/ pc' = "attempt"]_vars
    /\ [][pc = "update" /\ pc' \in {"loop", "save_mkstemp"}
            => \A c \in CollSet : c = cur.c => TokenOf(tokens', c) = cur.i]_vars
    /\ [](pc = "returned" /\ shutdown_requested /\ ret # "error" => disk = Document)
    /\ [][pc' = "attempt" /\ attempt' = 0
            => tokens' = (IF disk.st = "full" THEN disk.tokens ELSE <<>>)]_vars
    /\ [][pc = "open" /\ pc' = "loop"
            => \A c \in CollSet :
                 (\E k \in 1..Len(streams') : streams'[k] = c) /\ TokenOf(tokens, c) # Null
                 => pos'[c] = TokenOf(tokens, c)]_vars
    /\ (shutdown_requested ~> (pc = "exited" \/ ~shutdown_requested))

\* the process stopped on a signal with a token that only the final
\* persist can have written (no periodic flush was due)
C11_Witness ==
    /\ pc = "exited" /\ shutdown_requested /\ exit_code = 0
    /\ disk = Document /\ napplied = 1
    /\ \E c \in CollSet : DiskToken(c) # Null

\* a step of the process that is not its being killed and started again
\* (a kill leaves it at attempt 0 of a new process)
Killed == pc' = "attempt" /\ attempt' = 0 /\ pc # "exited"
\* the counters after one more error was recorded
OneMoreError == [stats EXCEPT !.total_synced = @ + 1, !.errors = @ + 1]
\* the event of the iteration in progress
CurChange == feed[cur.c][cur.i]
\* update_resume_token returns or reaches its persist: the token of the
\* event in progress is the collection's token
TokenAdvanced ==
    pc = "update" /\ pc' \in {"loop", "save_mkstemp"}
        => \A c \in CollSet : c = cur.c => TokenOf(tokens', c) = cur.i

\* C12: the process ends with code 0 only after a shutdown request, with
\* code 0 whenever a shutdown was requested, and with code 1 when an
\* exception left the last run_sync and no shutdown was requested.
C12_ExitCodes ==
    pc = "exited" =>
        /\ exit_code = 0 => shutdown_requested
        /\ shutdown_requested => exit_code = 0
        /\ exc # "none" /\ ~shutdown_requested => exit_code = 1

\* C13: at most 5 attempts; the first sleep is 5 s, each later one twice
\* the one before, none above 60 s; a connection error leaving run_sync
\* makes main sleep retry_delay and start the next attempt, or exit with
\* code 1 when it was the fifth attempt; any other exception makes main
\* exit with code 1 at once.
C13_RetryPolicy ==
    /\ [](attempt \in 0..4 /\ retry_delay <= 60 /\ slept \in {0, 5, 10, 20, 40})
    /\ [](IF slept = 0 THEN retry_delay = 5
                       ELSE retry_delay = (IF 2 * slept <= 60 THEN 2 * slept ELSE 60))
    /\ [][pc = "returned" /\ pc' # pc /\ ~Killed =>
            CASE exc = "conn" ->
                   IF attempt < 4
                   THEN /\ pc' = "attempt" /\ attempt' = attempt + 1
                        /\ slept' = retry_delay
                        /\ retry_delay' = (IF 2 * retry_delay <= 60
                                           THEN 2 * retry_delay ELSE 60)
                   ELSE pc' = "exited" /\ exit_code' = 1
              [] exc = "fatal" -> pc' = "exited" /\ exit_code' = 1
              [] OTHER -> TRUE]_vars

\* the fifth attempt failed to connect after sleeps of 5, 10, 20 and 40 s
C13_Witness ==
    pc = "exited" /\ exit_code = 1 /\ exc = "conn" /\ attempt = 4 /\ slept = 40

\* C14: when a write to the target fails with a connection failure (an
\* exception that is not an OperationFailure) and no shutdown was requested,
\* main sleeps retry_delay before the next attempt, or exits with code 1
\* when the attempts are used up.
C14_ConnectionFailureBacksOff ==
    [][/\ pc = "returned" /\ brk /\ raised = "exc" /\ ~shutdown_requested
       /\ pc' # pc /\ ~Killed
       => \/ pc' = "attempt" /\ slept' = retry_delay
          \/ pc' = "exited" /\ exit_code' = 1]_vars

\* C15: when the target write of an insert, update, replace or delete
\* raises OperationFailure, errors and total_synced grow by one and no
\* other counter changes, sync_change returns True (the loop goes on to
\* update_resume_token), and the event's token becomes the collection's.
C15_OperationFailureSkipsDocument ==
    /\ [][pc = "event" /\ raised' = "opfail"
            /\ CurChange.op \in {"insert", "update", "replace", "delete"}
          => stats' = OneMoreError /\ pc' = "update" /\ brk' = brk]_vars
    /\ [][raised = "opfail" => TokenAdvanced]_vars
    /\ [](raised = "opfail" => pc = "update")

\* an OperationFailure was counted and the token is about to advance
C15_Witness ==
    /\ pc = "update" /\ raised = "opfail" /\ stats.errors = 1
    /\ CurChange.op \in {"insert", "delete"}

\* C16: sync_change returns False only for an invalidate event or when the
\* target call raised something other than OperationFailure; in that case
\* errors and total_synced grow by one; the token is not recorded, and
\* until the attempt is over no event is pulled or applied and no token
\* changes.
C16_FalseStopsTheAttempt ==
    /\ [][pc = "event" /\ ~brk /\ brk'
          => /\ CurChange.op = "invalidate" \/ raised' = "exc"
             /\ raised' = "exc" => stats' = OneMoreError
             /\ raised' # "exc" => stats' = stats
             /\ tokens' = tokens]_vars
    /\ [][brk /\ brk' => tokens' = tokens /\ target' = target /\ stats' = stats]_vars
    /\ [](brk => /\ pc \in SavePcs \cup {"close_stream", "returned", "attempt", "exited"}
                 /\ pc \in SavePcs => ret = "finally")

\* run_sync returned after an unexpected exception of the target
C16_Witness == pc = "returned" /\ brk /\ raised = "exc" /\ stats.errors = 1

\* C17: for an insert, update or replace without fullDocument, sync_change
\* leaves the target and every counter as they are and returns True, and
\* the event's token becomes the collection's.
C17_NoFullDocumentIsNoOp ==
    [][/\ pc = "event" /\ CurChange.op \in {"insert", "update", "replace"}
       /\ CurChange.full = <<>> /\ Truthy(CurChange.ns.db) /\ Truthy(CurChange.ns.coll)
       /\ pc' # pc /\ ~Killed
       => target' = target /\ stats' = stats /\ pc' = "update" /\ brk' = brk]_vars
    /\ [][pc = "update" /\ CurChange.full = <<>> => TokenAdvanced]_vars

\* the token of an update without fullDocument was recorded
C17_Witness ==
    \E c \in CollSet :
        /\ TokenOf(tokens, c) # Null
        /\ feed[c][TokenOf(tokens, c)].op = "update"
        /\ feed[c][TokenOf(tokens, c)].full = <<>>

\* no document identity can be derived from the event
NoIdentity(change) ==
    IF change.op = "delete"
    THEN change.dk = <<>> \/ Falsy(extract_document_id(change.dk, <<>>))
    ELSE Falsy(extract_document_id(change.dk, change.full))
Malformed(change) ==
    \/ Falsy(change.ns.db) \/ Falsy(change.ns.coll)
    \/ change.op \in {"insert", "update", "replace", "delete"} /\ NoIdentity(change)

\* C18: for an event without db or coll, or a document event from which no
\* identity can be derived, sync_change writes nothing to the target,
\* changes no counter and returns True (the target raising nothing).
C18_MalformedEventIsNoOp ==
    [][Malformed(ap_change) /\ raised' = "none"
        => target' = target /\ stats' = stats /\ ~brk']_vars

\* C19: every event passed to sync_change is the one after the last event
\* of its collection passed before, or one passed before (a replay): none
\* is passed while an earlier one, emitted since the collection's first
\* open, never was.
C19_FeedOrderPerCollection ==
    pc = "event" => cur.i <= handed[cur.c]

\* C20: a state file that does not parse is left as it is, and the first
\* start begins with an empty token map and zero counters.
C20_CorruptFilePreserved ==
    /\ disk = CorruptFile
    /\ pc = "attempt" /\ attempt = 0 => tokens = <<>> /\ stats = ZeroStats

\* C21: a failure of the state file's write during a periodic flush or an
\* idle flush is tolerated: when that persist() is over, failed or not,
\* control is back in the main loop, which goes on processing events.
C21_FlushFailureTolerated ==
    [][/\ pc \in SavePcs /\ ret \in {"idle", "periodic"}
       /\ pc' \notin SavePcs /\ ~Killed
       => pc' = "loop" /\ exc' = "none"]_vars

\* the counters of the state file as a reader finds them
DiskStats == IF disk.st = "full" THEN disk.stats ELSE ZeroStats
StatKeys == {"total_synced", "inserts", "updates", "deletes", "errors"}
StatsLeq(a, b) == \A k \in StatKeys : a[k] <= b[k]
\* a new process starts in this step
ProcessStarts == pc' = "attempt" /\ attempt' = 0

\* C22: no counter ever decreases: the counters in memory are never below
\* those of the state file, the counters of the state file never decrease,
\* and within one process the counters in memory never decrease; so no
\* counter, in memory or on disk, is ever below a value written before.
C22_CountersMonotonic ==
    /\ [](StatsLeq(DiskStats, stats))
    /\ [][StatsLeq(DiskStats, DiskStats')]_vars
    /\ [][~ProcessStarts => StatsLeq(stats, stats')]_vars

\* a new process has loaded counters that an earlier one wrote
C22_Witness ==
    /\ pc = "attempt" /\ attempt = 0
    /\ stats.total_synced > 0 /\ stats = DiskStats

\* C23: whenever run_sync is over, normally or by an exception, no client
\* handle it opened is still open and the stream is closed.
C23_HandlesClosedOnExit ==
    pc \in {"returned", "exited"} \/ (pc = "attempt" /\ attempt > 0)
        => clients = {} /\ streams = <<>>

\* the state file holds an entry for every listed collection
FileHasEntries == disk.st = "full" /\ CollSet \subseteq DOMAIN disk.tokens

\* C29: init_collections adds a null entry for each listed collection that
\* has none and changes no entry there is, then writes the state file;
\* called when every listed collection has its entry it changes nothing in
\* memory, and when the file has them all the file's contents stay as
\* they are.
C29_InitCollectionsIdempotent ==
    /\ [][pc = "init" /\ pc' # pc /\ ~Killed
          => /\ pc' = "save_mkstemp" /\ ret' = "init"
             /\ DOMAIN tokens' = CollSet \cup DOMAIN tokens
             /\ \A c \in DOMAIN tokens' : tokens'[c] = TokenOf(tokens, c)
             /\ CollSet \subseteq DOMAIN tokens
                    => tokens' = tokens /\ stats' = stats /\ csp' = csp]_vars
    /\ [][pc = "save_replace" /\ ret = "init" /\ pc' = "open"
          => /\ disk' = [st |-> "full", tokens |-> tokens, stats |-> stats]
             /\ FileHasEntries => disk' = disk /\ csp' = csp]_vars

\* a retry attempt has called init_collections again, a token being stored
C29_Witness ==
    /\ pc = "open" /\ attempt > 0 /\ disk = Document
    /\ \E c \in CollSet : TokenOf(tokens, c) # Null

\* the collections whose token in memory is not the one on disk
Unflushed == {c \in CollSet : TokenOf(tokens, c) # DiskToken(c)}

\* C30: at the top of the main loop 0 <= changes_since_persist <
\* persist_interval, the tokens not yet on disk are those of at most
\* changes_since_persist events, and nothing is unflushed when the counter
\* is 0; an idle flush that succeeds leaves the counter at 0 and the file
\* equal to the state in memory.
C30_BoundedUnflushedProgress ==
    /\ [](pc = "loop" => /\ csp \in 0..(PersistInterval - 1)
                         /\ Cardinality(Unflushed) <= csp
                         /\ csp = 0 => disk = Document)
    /\ [][pc = "save_replace" /\ ret = "idle" /\ pc' = "loop"
          => csp' = 0 /\ disk' = [st |-> "full", tokens |-> tokens', stats |-> stats']]_vars

\* the loop holds as many unflushed events as it may
C30_Witness ==
    pc = "loop" /\ csp = PersistInterval - 1 /\ Unflushed # {}

\* C27: for a drop event sync_change drops collection ns.db/ns.coll on the
\* target and for a dropDatabase event it drops database ns.db; it changes
\* no counter and returns True, also when the drop raises OperationFailure
\* (the target is then left as it was).
C27_DropsApplied ==
    [][/\ ap_change.op \in {"drop", "dropDatabase"} /\ Truthy(ap_change.ns.db)
       /\ ap_change.op = "drop" => Truthy(ap_change.ns.coll)
       /\ raised' \in {"none", "opfail"}
       /\ ap_n' # ap_n \/ raised' = "opfail"
       => /\ ~brk' /\ stats' = stats /\ rec' = ""
          /\ raised' = "opfail" => target' = target
          /\ raised' = "none" =>
               target' = IF ap_change.op = "drop"
                         THEN DropCollection(target, ap_change.ns.db, ap_change.ns.coll)
                         ELSE DropDatabase(target, ap_change.ns.db)]_vars

\* the values extract_document_id chooses among, in order
Candidates(document_key, full_document) ==
    <<DictGet(document_key, "_id"), DictGet(document_key, ""),
      IF full_document # <<>> THEN DictGet(full_document, "_id") ELSE None,
      IF document_key # <<>> THEN document_key[1][2] ELSE None>>
\* the first value of a sequence that is not None, None when there is none
FirstNonNull(vals) ==
    IF \A i \in 1..Len(vals) : vals[i] = None THEN None
    ELSE vals[CHOOSE i \in 1..Len(vals) :
                /\ vals[i] # None
                /\ \A j \in 1..(i - 1) : vals[j] = None]

\* C28: extract_document_id returns the first non-null value among
\* documentKey["_id"], documentKey[""], fullDocument["_id"] and the first
\* value of documentKey, null when there is none (a falsy identity such as
\* the empty string counts as non-null), and a delete event whose identity
\* is non-null deletes the document of that identity.
C28_FirstNonNullIdentity ==
    /\ [](extract_document_id(ap_change.dk, ap_change.full)
            = FirstNonNull(Candidates(ap_change.dk, ap_change.full)))
    /\ [][/\ ap_change.op = "delete"
          /\ Truthy(ap_change.ns.db) /\ Truthy(ap_change.ns.coll)
          /\ FirstNonNull(Candidates(ap_change.dk, <<>>)) # None
          /\ ap_n' # ap_n
          => /\ target' = DeleteOne(target, ap_change.ns.db, ap_change.ns.coll,
                                    FirstNonNull(Candidates(ap_change.dk, <<>>)))
             /\ rec' = "delete"]_vars

\* the sweep distances, from the index a call of try_next started at, of
\* the cursors that yield an event in that call
MxHits == {j \in 0..(mx.n - 1) : mx.out[((mx.start + j) % mx.n) + 1] = "event"}
MxFirstHit == CHOOSE j \in MxHits : \A k \in MxHits : j <= k

\* C24: a call of try_next probes the cursors in cyclic order from the
\* index it started at, each at most once; it returns the first event found
\* with that cursor's name and leaves the index just past that cursor; when
\* no cursor yields an event it returns (None, None) after one full sweep,
\* the index back where it started; a cursor that raises counts as one
\* without an event, the cursors after it being probed all the same.
C24_MultiplexerSweep ==
    /\ Len(mx.probed) <= mx.n
    /\ \A i \in 1..Len(mx.probed) : mx.probed[i] = (mx.start + i - 1) % mx.n
    /\ mx.result # "" =>
         IF MxHits = {}
         THEN /\ mx.result = "none"
              /\ Len(mx.probed) = mx.n
              /\ mx.index = mx.start
         ELSE /\ mx.result = MxName((mx.start + MxFirstHit) % mx.n)
              /\ Len(mx.probed) = MxFirstHit + 1
              /\ mx.index = (mx.start + MxFirstHit + 1) % mx.n

\* of three cursors the first probed raised, the second had nothing and
\* the third, not the first of the list, yielded its event
C24_Witness ==
    /\ mx.n = 3 /\ mx.start = 1 /\ mx.result = MxName(0)
    /\ mx.out[2] = "raise" /\ mx.out[3] = "none"

\* C25: a cursor that has an event pending is served within n consecutive
\* calls of try_next, n the number of cursors, whatever the other cursors
\* do: it never waits for more than n calls, and the n-th call does not
\* return without having served it.
C25_BoundedFairness ==
    mx.w # -1 =>
        /\ mx.waited <= mx.n
        /\ mx.waited = mx.n => mx.result = ""

\* a cursor became pending when the sweep had just passed it and was
\* served by the third call of three cursors, the others always ready
C25_Witness ==
    /\ mx.n = 3 /\ mx.lastWait = 3 /\ mx.w = -1 /\ mx.calls > 3
    /\ mx.result # "" /\ mx.result # "none"

\* the cursors open_change_stream is to open: the specs of the list, in
\* order, that have the database.collection format and whose watch() does
\* not raise
OcExpected == SelectSeq(oc.collections,
                        LAMBDA c : c \in {"a.x", "b.y"} /\ c \notin oc.fails)
\* the specs of the list dealt with so far
OcDone == SubSeq(oc.collections, 1, oc.i)

\* C26: a spec that is malformed or whose cursor fails to open is skipped
\* and the others are opened all the same, in the list's order, each
\* tagged with its own name, with resume_after equal to the stored token
\* when that is not null and without resume_after when it is;
\* open_change_stream raises exactly when no cursor opened.
C26_StreamConstruction ==
    /\ Len(oc.streams)
         = Len(SelectSeq(OcDone, LAMBDA c : c \in {"a.x", "b.y"} /\ c \notin oc.fails))
    /\ \A k \in 1..Len(oc.streams) :
         /\ oc.streams[k].name = OcExpected[k]
         /\ oc.streams[k].resume_after
              = (IF oc.stored[oc.streams[k].name] # Null
                 THEN oc.stored[oc.streams[k].name] ELSE NotPassed)
    /\ oc.result # "" =>
         /\ Len(oc.streams) = Len(OcExpected)
         /\ oc.result = "ValueError" <=> OcExpected = <<>>
         /\ oc.result = "stream" <=> OcExpected # <<>>

\* of three specs one was malformed, one failed to open and one was opened
\* with its stored token
C26_Witness ==
    /\ oc.result = "stream" /\ Len(oc.streams) = 1
    /\ oc.collections = <<"ax", "a.x", "b.y">> /\ oc.fails = {"a.x"}
    /\ oc.streams[1] = [name |-> "b.y", resume_after |-> 1]

====
